---------------------------- MODULE Spec2Model ----------------------------
(***************************************************************************)
(* Model of two request handlers of the repository:                        *)
(*   - pkg/cmd/cli/describe: DeploymentConfigDescriber.Describe and        *)
(*     LatestDeploymentsDescriber.Describe (src/unnamed/part_000)          *)
(*   - pkg/user/registry/user/etcd: REST.Get (etcd.go)                     *)
(*                                                                         *)
(* Every handler is synchronous; one action runs one whole request against *)
(* the collaborator responses held in the state.  Go strings that are      *)
(* compared or formatted are sequences of character codes.                 *)
(***************************************************************************)
EXTENDS Integers, Sequences, FiniteSets, TLC

VARIABLES
    pc,         \* "ready" before the request, "done" after it returned
    d,          \* the describer: [config: <<>> (nil) or <<cfg>>, count: Int]
    req,        \* the request: [op, name, ShowEvents]
    osClient,   \* config store: [dcs: set of configs, err: BOOLEAN]
    kubeClient, \* kube collaborator responses (rcs, pods, hpas, events, errors)
    userApi,    \* user REST: [ctx: <<>> or <<user>>, users: set, err: BOOLEAN]
    res         \* what the request returned: [out, err, calls, obj]

vars == <<pc, d, req, osClient, kubeClient, userApi, res>>

---------------------------------------------------------------------------
(* Bounds of the model *)
MaxVersion == 4     \* deployments a-1 .. a-MaxVersion, LatestVersion 0..MaxVersion
MaxTime == 2        \* creation timestamps 1..MaxTime
MaxEvents == 10     \* the event search returns 0..MaxEvents events
MaxHpas == 2        \* the autoscaler list holds 0..MaxHpas items

(* Program constants *)
maxDisplayDeployments == 3
maxDisplayDeploymentsEvents == 8

---------------------------------------------------------------------------
(* Strings as character codes *)
sA == <<97>>                                     \* "a"
sB == <<98>>                                     \* "b"
sDb == <<100, 98>>                               \* "db"
sNotDeployed == <<78,111,116,32,100,101,112,108,111,121,101,100>> \* "Not deployed"
sNone == <<60,110,111,110,101,62>>               \* "<none>"
sErrorPrefix == <<101,114,114,111,114,58,32>>    \* "error: "
sBoom == <<98,111,111,109>>                      \* the text of a non-not-found error
sDeploymentHash == <<68,101,112,108,111,121,109,101,110,116,32,35>> \* "Deployment #"
sLatestSuffix == <<32,40,108,97,116,101,115,116,41>>                \* " (latest)"

RECURSIVE Digits(_)
Digits(n) == IF n < 10 THEN <<48 + n>> ELSE Digits(n \div 10) \o <<48 + (n % 10)>>

\* strconv.FormatInt(v, 10) and fmt's %d
FormatInt(v) == IF v < 0 THEN <<45>> \o Digits(-v) ELSE Digits(v)

\* Go's string < : lexicographic on bytes
RECURSIVE StrLess(_, _)
StrLess(s, t) ==
    IF t = <<>> THEN FALSE
    ELSE IF s = <<>> THEN TRUE
    ELSE IF Head(s) # Head(t) THEN Head(s) < Head(t)
    ELSE StrLess(Tail(s), Tail(t))

RECURSIVE ParseDigits(_, _)
ParseDigits(s, acc) ==
    IF s = <<>> THEN acc
    ELSE IF Head(s) < 48 \/ Head(s) > 57 THEN -1
    ELSE ParseDigits(Tail(s), acc * 10 + (Head(s) - 48))

---------------------------------------------------------------------------
(* deployutil helpers (pkg/deploy/util, not among the source files) *)

\* fmt.Sprintf("%s-%d", config.Name, config.Status.LatestVersion)
LatestDeploymentNameForConfig(config) ==
    config.name \o <<45>> \o FormatInt(config.latestVersion)

\* the version annotation parsed as an integer, -1 when absent or malformed
DeploymentVersionFor(rc) ==
    IF rc.annVersion = <<>> THEN -1 ELSE ParseDigits(rc.annVersion, 0)

\* the owning-config annotation, "" when absent
DeploymentConfigNameFor(rc) == rc.annConfig

\* tabbedString(f): the text f wrote, and f's error
tabbedString(r) == r

---------------------------------------------------------------------------
(* Collaborators *)

Line(label, text, of, sub, items) ==
    [label |-> label, text |-> text, of |-> of, sub |-> sub, items |-> items]

NoResult == [out |-> <<>>, err |-> "", calls |-> <<>>, obj |-> <<>>]

\* osClient.DeploymentConfigs(namespace).Get(name)
DeploymentConfigsGet(name) ==
    IF osClient.err THEN [err |-> "other", obj |-> <<>>]
    ELSE IF \E c \in osClient.dcs : c.name = name
         THEN [err |-> "", obj |-> <<CHOOSE c \in osClient.dcs : c.name = name>>]
         ELSE [err |-> "notfound", obj |-> <<>>]

\* kubeClient.ReplicationControllers(namespace).Get(name)
ReplicationControllersGet(name) ==
    IF kubeClient.rcGetErr THEN [err |-> "other", obj |-> <<>>]
    ELSE IF \E rc \in kubeClient.rcs : rc.name = name
         THEN [err |-> "", obj |-> <<CHOOSE rc \in kubeClient.rcs : rc.name = name>>]
         ELSE [err |-> "notfound", obj |-> <<>>]

\* the store lists in key (name) order
RECURSIVE ByName(_)
ByName(S) ==
    IF S = {} THEN <<>>
    ELSE LET m == CHOOSE x \in S : \A y \in S \ {x} : StrLess(x.name, y.name)
         IN  <<m>> \o ByName(S \ {m})

\* kubeClient.ReplicationControllers(namespace).List(everything)
ReplicationControllersList ==
    IF kubeClient.rcListErr # "" THEN [err |-> kubeClient.rcListErr, items |-> <<>>]
    ELSE [err |-> "", items |-> ByName(kubeClient.rcs)]


\* kubeClient.Pods(namespace).List(selector of the deployment)
PodsList ==
    IF kubeClient.podsErr THEN [err |-> "other", items |-> <<>>]
    ELSE [err |-> "", items |-> kubeClient.pods]

\* kclient.Extensions().HorizontalPodAutoscalers(namespace).List(everything)
HorizontalPodAutoscalersList ==
    IF kubeClient.hpaErr THEN [err |-> "other", items |-> <<>>]
    ELSE [err |-> "", items |-> kubeClient.hpas]

\* kubeClient.Events(namespace).Search(config): error, nil list, or a list
EventsSearch == kubeClient.events

---------------------------------------------------------------------------
(* DeploymentConfigDescriber.Describe, section by section.  A section is   *)
(* [lines, calls, err]: the lines it wrote, the collaborator calls it made *)
(* in order, and the error it returned.                                    *)

Blank == Line("", <<>>, <<>>, {}, <<>>)

Count(items, phase) == Cardinality({i \in 1..Len(items) : items[i] = phase})

getPodStatusForDeployment(deployment) ==
    LET rcPods == PodsList
    IN  IF rcPods.err # ""
        THEN [counts |-> <<0, 0, 0, 0>>, err |-> rcPods.err, calls |-> <<"PodsList">>]
        ELSE [counts |-> <<Count(rcPods.items, "Running"), Count(rcPods.items, "Pending"),
                           Count(rcPods.items, "Succeeded"), Count(rcPods.items, "Failed")>>,
              err |-> "", calls |-> <<"PodsList">>]

\* mutant: the pod-phase query is issued for every block, verbose or not
printDeploymentRc_AlwaysPods(deployment, header, verbose) ==
    LET st == getPodStatusForDeployment(deployment)
        base == {"Created", "Status", "Replicas"}
    IN  IF st.err # ""
        THEN [lines |-> <<Line("Deployment", header, <<deployment>>, base, <<>>)>>,
              calls |-> st.calls, err |-> st.err]
        ELSE [lines |-> <<Line("Deployment", header, <<deployment>>,
                               base \cup {"Pods Status"}, st.counts)>>,
              calls |-> st.calls, err |-> ""]

\* One block: the header line and the tab-indented lines under it (sub).
printDeploymentRc(deployment, header, verbose) ==
    LET base == {"Created", "Status", "Replicas"}
        verb == base \cup {"Name", "Selector", "Labels"}
    IN  IF ~verbose
        THEN [lines |-> <<Line("Deployment", header, <<deployment>>, base, <<>>)>>,
              calls |-> <<>>, err |-> ""]
        ELSE LET st == getPodStatusForDeployment(deployment)
             IN  IF st.err # ""
                 THEN [lines |-> <<Line("Deployment", header, <<deployment>>, verb, <<>>)>>,
                       calls |-> st.calls, err |-> st.err]
                 ELSE [lines |-> <<Line("Deployment", header, <<deployment>>,
                                        verb \cup {"Pods Status"}, st.counts)>>,
                       calls |-> st.calls, err |-> ""]

\* mutant: every matching autoscaler is printed (the break is missing)
printAutoscalingInfo_NoBreak(name) ==
    LET hpaList == HorizontalPodAutoscalersList
        scaledBy == SelectSeq(hpaList.items,
                        LAMBDA hpa : hpa.refName = name /\ hpa.refKind = "DeploymentConfig")
    IN  IF hpaList.err # "" THEN [lines |-> <<>>, calls |-> <<"HPAList">>, err |-> ""]
        ELSE [lines |-> [i \in 1..Len(scaledBy) |->
                            Line("Autoscaling", <<>>, <<scaledBy[i]>>, {},
                                 <<scaledBy[i].min, scaledBy[i].max>> \o scaledBy[i].cpu)],
              calls |-> <<"HPAList">>, err |-> ""]

\* res.String() of deployapi.Resource("DeploymentConfig") is "DeploymentConfig"
printAutoscalingInfo(name) ==
    LET hpaList == HorizontalPodAutoscalersList
        scaledBy == SelectSeq(hpaList.items,
                        LAMBDA hpa : hpa.refName = name /\ hpa.refKind = "DeploymentConfig")
    IN  IF hpaList.err # "" THEN [lines |-> <<>>, calls |-> <<"HPAList">>, err |-> ""]
        ELSE IF Len(scaledBy) = 0 THEN [lines |-> <<>>, calls |-> <<"HPAList">>, err |-> ""]
        ELSE [lines |-> <<Line("Autoscaling", <<>>, <<scaledBy[1]>>, {},
                               <<scaledBy[1].min, scaledBy[1].max>> \o scaledBy[1].cpu)>>,
              calls |-> <<"HPAList">>, err |-> ""]

\* mutant: "Not deployed" is chosen for every version below 2
LatestVersionLine_Below2(config) ==
    IF config.latestVersion < 2
    THEN Line("Latest Version", sNotDeployed, <<>>, {}, <<>>)
    ELSE Line("Latest Version", FormatInt(config.latestVersion), <<>>, {}, <<>>)

LatestVersionLine(config) ==
    IF config.latestVersion = 0
    THEN Line("Latest Version", sNotDeployed, <<>>, {}, <<>>)
    ELSE Line("Latest Version", FormatInt(config.latestVersion), <<>>, {}, <<>>)

\* The selector, replicas, triggers, strategy and template lines depend on
\* the config's spec alone; they are recorded by their labels.
printDeploymentConfigSpec(config) ==
    LET auto == printAutoscalingInfo(config.name)
    IN  [lines |-> <<Line("Selector", <<>>, <<>>, {}, <<>>),
                     Line("Replicas", <<>>, <<>>, {}, <<>>)>>
                   \o auto.lines
                   \o <<Line("Triggers", <<>>, <<>>, {}, <<>>),
                        Line("Strategy", <<>>, <<>>, {}, <<>>),
                        Line("Template", <<>>, <<>>, {}, <<>>)>>,
         calls |-> auto.calls, err |-> ""]

WarningLines(config) ==
    IF config.message # <<>>
    THEN <<Line("Warning", config.message, <<>>, {}, <<>>)>>
    ELSE <<>>

\* mutant: every retrieval error is shown as "<none>"
LatestDeploymentSection_AllNone(deploymentName) ==
    LET got == ReplicationControllersGet(deploymentName)
    IN  IF got.err # ""
        THEN [lines |-> <<Line("Latest Deployment", sNone, <<>>, {}, <<>>)>>,
              calls |-> <<"RCGet">>, err |-> ""]
        ELSE LET p == printDeploymentRc(got.obj[1],
                          sDeploymentHash \o FormatInt(DeploymentVersionFor(got.obj[1]))
                                          \o sLatestSuffix, TRUE)
             IN  [lines |-> p.lines, calls |-> <<"RCGet">> \o p.calls, err |-> ""]

\* the error printDeploymentRc returns is dropped by the caller
LatestDeploymentSection(deploymentName) ==
    LET got == ReplicationControllersGet(deploymentName)
    IN  IF got.err = "notfound"
        THEN [lines |-> <<Line("Latest Deployment", sNone, <<>>, {}, <<>>)>>,
              calls |-> <<"RCGet">>, err |-> ""]
        ELSE IF got.err # ""
        THEN [lines |-> <<Line("Latest Deployment", sErrorPrefix \o sBoom, <<>>, {}, <<>>)>>,
              calls |-> <<"RCGet">>, err |-> ""]
        ELSE LET p == printDeploymentRc(got.obj[1],
                          sDeploymentHash \o FormatInt(DeploymentVersionFor(got.obj[1]))
                                          \o sLatestSuffix, TRUE)
             IN  [lines |-> p.lines, calls |-> <<"RCGet">> \o p.calls, err |-> ""]

---------------------------------------------------------------------------
(* The deployment history: lines 103-120 *)

\* rcutils.OverlappingControllers.Less: by creation timestamp, names break ties
OverlappingLess(a, b) ==
    IF a.ts = b.ts THEN StrLess(a.name, b.name) ELSE a.ts < b.ts

\* mutant: the sort.Reverse wrapper is missing
ReverseLess_NotReversed(a, b) == OverlappingLess(a, b)

\* sort.Reverse(x).Less(i, j) is x.Less(j, i)
ReverseLess(a, b) == OverlappingLess(b, a)

RECURSIVE Insert(_, _)
Insert(x, s) ==
    IF s = <<>> THEN <<x>>
    ELSE IF ReverseLess(x, Head(s)) THEN <<x>> \o s
    ELSE <<Head(s)>> \o Insert(x, Tail(s))

\* sort.Sort under ReverseLess; the order is total because names are unique
RECURSIVE SortReverse(_)
SortReverse(s) == IF s = <<>> THEN <<>> ELSE Insert(Head(s), SortReverse(Tail(s)))

\* mutant: the latest deployment is not excluded by name
IsPriorDeployment_NoNameCheck(item, deploymentName, config) ==
    config.name = DeploymentConfigNameFor(item)

\* the condition of line 110
IsPriorDeployment(item, deploymentName, config) ==
    /\ item.name # deploymentName
    /\ config.name = DeploymentConfigNameFor(item)

\* mutant: the counter starts at 0
counterStart_Zero == 1 - 1

\* line 108: counter := 1
counterStart == 1

\* the loop of lines 109-118, from item i on
RECURSIVE HistoryLoop(_, _, _, _, _)
HistoryLoop(sorted, i, counter, deploymentName, config) ==
    IF i > Len(sorted) THEN [lines |-> <<>>, calls |-> <<>>]
    ELSE LET item == sorted[i]
             hit == IsPriorDeployment(item, deploymentName, config)
             p == IF hit
                  THEN printDeploymentRc(item,
                           sDeploymentHash \o FormatInt(DeploymentVersionFor(item)), FALSE)
                  ELSE [lines |-> <<>>, calls |-> <<>>, err |-> ""]
             next == IF hit THEN counter + 1 ELSE counter
             rest == IF next = maxDisplayDeployments
                     THEN [lines |-> <<>>, calls |-> <<>>]
                     ELSE HistoryLoop(sorted, i + 1, next, deploymentName, config)
         IN  [lines |-> p.lines \o rest.lines, calls |-> p.calls \o rest.calls]

\* lines 103-120: no history for a provided config, none when the list fails
HistorySection(deploymentName, config) ==
    IF d.config # <<>> THEN [lines |-> <<>>, calls |-> <<>>, err |-> ""]
    ELSE LET deploymentsHistory == ReplicationControllersList
         IN  IF deploymentsHistory.err # ""
             THEN [lines |-> <<>>, calls |-> <<"RCList">>, err |-> ""]
             ELSE LET h == HistoryLoop(SortReverse(deploymentsHistory.items), 1,
                                       counterStart, deploymentName, config)
                  IN  [lines |-> h.lines, calls |-> <<"RCList">> \o h.calls, err |-> ""]

---------------------------------------------------------------------------
(* The events: lines 122-132 *)

\* mutant: the loop stops one event later
RECURSIVE EventsLoop_OneMore(_, _)
EventsLoop_OneMore(items, i) ==
    IF i # 0 /\ i >= Len(items) - maxDisplayDeploymentsEvents
    THEN <<items[i]>> \o EventsLoop_OneMore(items, i - 1)
    ELSE <<>>

\* for i := len; i != 0 && i > len-maxDisplayDeploymentsEvents; i--
RECURSIVE EventsLoop(_, _)
EventsLoop(items, i) ==
    IF i # 0 /\ i > Len(items) - maxDisplayDeploymentsEvents
    THEN <<items[i]>> \o EventsLoop(items, i - 1)
    ELSE <<>>

\* kctl.DescribeEvents is handed latestDeploymentEvents (items)
EventsSection(settings) ==
    IF ~settings.ShowEvents THEN [lines |-> <<>>, calls |-> <<>>, err |-> ""]
    ELSE LET events == EventsSearch
         IN  IF ~events.err /\ events.list # <<>>
             THEN [lines |-> <<Blank, Line("Events", <<>>, <<>>, {},
                                            EventsLoop(events.list[1], Len(events.list[1])))>>,
                   calls |-> <<"EventsSearch">>, err |-> ""]
             ELSE [lines |-> <<>>, calls |-> <<"EventsSearch">>, err |-> ""]

---------------------------------------------------------------------------
(* DeploymentConfigDescriber.Describe(namespace, name, settings) *)

DescribeBody(deploymentConfig, settings) ==
    LET spec == printDeploymentConfigSpec(deploymentConfig)
        deploymentName == LatestDeploymentNameForConfig(deploymentConfig)
        latest == LatestDeploymentSection(deploymentName)
        hist == HistorySection(deploymentName, deploymentConfig)
        ev == EventsSection(settings)
    IN  [out |-> <<Line("Meta", deploymentConfig.name, <<>>, {}, <<>>),
                   LatestVersionLine(deploymentConfig)>>
                 \o spec.lines \o <<Blank>> \o WarningLines(deploymentConfig)
                 \o latest.lines \o hist.lines \o ev.lines,
         err |-> "",
         calls |-> spec.calls \o latest.calls \o hist.calls \o ev.calls,
         obj |-> <<>>]

DescribeConfig(name, settings) ==
    IF d.config # <<>>
    THEN tabbedString(DescribeBody(d.config[1], settings))
    ELSE LET got == DeploymentConfigsGet(name)
         IN  IF got.err # ""
             THEN [out |-> <<>>, err |-> got.err, calls |-> <<"DCGet">>, obj |-> <<>>]
             ELSE LET r == tabbedString(DescribeBody(got.obj[1], settings))
                  IN  [r EXCEPT !.calls = <<"DCGet">> \o r.calls]

---------------------------------------------------------------------------
(* LatestDeploymentsDescriber.Describe(namespace, name): lines 353-396.     *)
(* The graph packages and describeDeployments are not among the source     *)
(* files; the output records the deployments handed to the graph.          *)

\* mutant: every error of the instance reads is ignored
LatestReadFails_Never(err) == FALSE

\* err != nil && !kerrors.IsNotFound(err)
LatestReadFails(err) == err # "" /\ err # "notfound"

\* deployutil.ConfigSelector(name): the deployments labelled with the config
ListByConfig(name) ==
    LET l == ReplicationControllersList
    IN  [l EXCEPT !.items = SelectSeq(l.items, LAMBDA rc : rc.annConfig = name)]

DescribeLatest(name) ==
    LET got == DeploymentConfigsGet(name)
    IN  IF got.err # ""
        THEN [out |-> <<>>, err |-> got.err, calls |-> <<"DCGet">>, obj |-> <<>>]
        ELSE IF d.count = -1 \/ d.count > 1
        THEN LET list == ListByConfig(name)
             IN  IF LatestReadFails(list.err)
                 THEN [out |-> <<>>, err |-> list.err, calls |-> <<"DCGet", "RCList">>,
                       obj |-> <<>>]
                 ELSE tabbedString(
                      [out |-> <<Line("Deployments", name, list.items, {}, <<>>)>>,
                       err |-> "", calls |-> <<"DCGet", "RCList">>, obj |-> <<>>])
        ELSE LET dep == ReplicationControllersGet(LatestDeploymentNameForConfig(got.obj[1]))
             IN  IF LatestReadFails(dep.err)
                 THEN [out |-> <<>>, err |-> dep.err, calls |-> <<"DCGet", "RCGet">>,
                       obj |-> <<>>]
                 ELSE tabbedString(
                      [out |-> <<Line("Deployments", name, dep.obj, {}, <<>>)>>,
                       err |-> "", calls |-> <<"DCGet", "RCGet">>, obj |-> <<>>])

---------------------------------------------------------------------------
(* User REST.Get(ctx, name): etcd.go lines 62-99 *)

sTilde == <<126>>                                \* "~"
sAl == <<97, 108>>                               \* "al"
sBo == <<98, 111>>                               \* "bo"
sSysAdmin == <<115, 58, 97>>                     \* "s:a"

Contains(s, c) == \E i \in 1..Len(s) : s[i] = c

\* validation.ValidateUserName (pkg/user/api/validation, not among the
\* source files): no ".", "..", "/", "%", ":" and not "~"
ValidateUserName(name) ==
    /\ name # <<46>> /\ name # <<46, 46>>
    /\ ~Contains(name, 47) /\ ~Contains(name, 37)
    /\ ~Contains(name, 58)
    /\ name # sTilde

\* bootstrappolicy.UnauthenticatedGroup, bootstrappolicy.AuthenticatedGroup
VirtualGroups == {"system:unauthenticated", "system:authenticated"}

\* r.Store.Get(ctx, name)
StoreGet(name) ==
    IF userApi.err THEN [err |-> "other", obj |-> <<>>]
    ELSE IF \E u \in userApi.users : u.name = name
         THEN [err |-> "", obj |-> <<CHOOSE u \in userApi.users : u.name = name>>]
         ELSE [err |-> "notfound", obj |-> <<>>]

\* &api.User{ObjectMeta: {Name: name}, Groups: contextGroups.List()}
VirtualUser(name, contextGroups) ==
    [name |-> name, groups |-> contextGroups, uid |-> ""]

\* mutant: the store's not-found is returned for "~"
Get_NotFoundForSelf(name) ==
    IF name = sTilde
    THEN IF userApi.ctx = <<>> \/ userApi.ctx[1].name = <<>>
         THEN [out |-> <<>>, err |-> "forbidden", calls |-> <<>>, obj |-> <<>>]
         ELSE LET user == userApi.ctx[1]
                  contextGroups == user.groups \ VirtualGroups
              IN  IF ~ValidateUserName(user.name)
                  THEN [out |-> <<>>, err |-> "", calls |-> <<>>,
                        obj |-> <<VirtualUser(user.name, contextGroups)>>]
                  ELSE LET got == StoreGet(user.name)
                       IN  [out |-> <<>>, err |-> got.err, calls |-> <<"StoreGet">>,
                            obj |-> got.obj]
    ELSE IF ~ValidateUserName(name)
         THEN [out |-> <<>>, err |-> "invalid", calls |-> <<>>, obj |-> <<>>]
         ELSE LET got == StoreGet(name)
              IN  [out |-> <<>>, err |-> got.err, calls |-> <<"StoreGet">>, obj |-> got.obj]

Get(name) ==
    IF name = sTilde
    THEN IF userApi.ctx = <<>> \/ userApi.ctx[1].name = <<>>
         THEN [out |-> <<>>, err |-> "forbidden", calls |-> <<>>, obj |-> <<>>]
         ELSE LET user == userApi.ctx[1]
                  contextGroups == user.groups \ VirtualGroups
              IN  IF ~ValidateUserName(user.name)
                  THEN [out |-> <<>>, err |-> "", calls |-> <<>>,
                        obj |-> <<VirtualUser(user.name, contextGroups)>>]
                  ELSE LET got == StoreGet(user.name)
                       IN  IF got.err = ""
                           THEN [out |-> <<>>, err |-> "", calls |-> <<"StoreGet">>,
                                 obj |-> got.obj]
                           ELSE IF got.err # "notfound"
                           THEN [out |-> <<>>, err |-> got.err, calls |-> <<"StoreGet">>,
                                 obj |-> <<>>]
                           ELSE [out |-> <<>>, err |-> "", calls |-> <<"StoreGet">>,
                                 obj |-> <<VirtualUser(user.name, contextGroups)>>]
    ELSE IF ~ValidateUserName(name)
         THEN [out |-> <<>>, err |-> "invalid", calls |-> <<>>, obj |-> <<>>]
         ELSE LET got == StoreGet(name)
              IN  [out |-> <<>>, err |-> got.err, calls |-> <<"StoreGet">>, obj |-> got.obj]

---------------------------------------------------------------------------
(* Input domains *)

ConfigNames == {sA, sB}

\* a deployment as the deployment controller creates it: named
\* LatestDeploymentNameForConfig at its version, annotated with both
Deployment(cfg, v, ts) ==
    [name |-> cfg \o <<45>> \o FormatInt(v), ts |-> ts,
     annConfig |-> cfg, annVersion |-> FormatInt(v)]

\* a replication controller that is no deployment: no annotations
PlainRc(name, ts) ==
    [name |-> name, ts |-> ts, annConfig |-> <<>>, annVersion |-> <<>>]

Config(name, v, message) == [name |-> name, latestVersion |-> v, message |-> message]

\* the deployments of config "a": version v created at f[v], absent when f[v] = 0
RcsOfA(f) == {Deployment(sA, v, f[v]) : v \in {w \in DOMAIN f : f[w] # 0}}

OtherRcs == {{}, {Deployment(sB, 1, 1), PlainRc(sDb, MaxTime)}}

Hpa(id, refName, refKind, shape) ==
    [id |-> id, refName |-> refName, refKind |-> refKind,
     min |-> shape[1], max |-> shape[2], cpu |-> shape[3]]

HpaShapes == {<<1, 3, <<>>>>, <<2, 5, <<80>>>>}

HpaLists ==
    UNION {{[i \in 1..n |-> Hpa(i, g[i][1], g[i][2], g[i][3])] :
              g \in [1..n -> ConfigNames \X {"DeploymentConfig", "ReplicationController"}
                                         \X HpaShapes]} : n \in 0..MaxHpas}

\* events as the search returns them, oldest first
EventList(n) == [i \in 1..n |-> i]

QuietKube ==
    [rcs |-> {}, rcGetErr |-> FALSE, rcListErr |-> "", pods |-> <<>>, podsErr |-> FALSE,
     hpas |-> <<>>, hpaErr |-> FALSE, events |-> [err |-> FALSE, list |-> <<<<>>>>]]

NoUsers == [ctx |-> <<>>, users |-> {}, err |-> FALSE]

---------------------------------------------------------------------------
(* Actions: one per handler *)

Describe ==
    /\ pc = "ready"
    /\ \E name \in ConfigNames, show \in BOOLEAN :
         /\ req' = [op |-> "Describe", name |-> name, ShowEvents |-> show]
         /\ res' = DescribeConfig(name, [ShowEvents |-> show])
    /\ pc' = "done"
    /\ UNCHANGED <<d, osClient, kubeClient, userApi>>

Latest ==
    /\ pc = "ready"
    /\ \E name \in ConfigNames :
         /\ req' = [op |-> "Latest", name |-> name, ShowEvents |-> FALSE]
         /\ res' = DescribeLatest(name)
    /\ pc' = "done"
    /\ UNCHANGED <<d, osClient, kubeClient, userApi>>

UserGet ==
    /\ pc = "ready"
    /\ \E name \in {sTilde, sAl, sBo, sSysAdmin} :
         /\ req' = [op |-> "UserGet", name |-> name, ShowEvents |-> FALSE]
         /\ res' = Get(name)
    /\ pc' = "done"
    /\ UNCHANGED <<d, osClient, kubeClient, userApi>>

---------------------------------------------------------------------------
(* Specifications *)

InitCommon ==
    /\ pc = "ready"
    /\ req = [op |-> "", name |-> <<>>, ShowEvents |-> FALSE]
    /\ res = NoResult

\* the deployment history: every set of deployments of "a" with every
\* creation time, next to other controllers of the namespace
InitHistory ==
    /\ InitCommon
    /\ userApi = NoUsers
    /\ \E v \in 0..MaxVersion, given \in BOOLEAN :
         /\ osClient = [dcs |-> {Config(sA, v, <<>>)}, err |-> FALSE]
         /\ d = [config |-> IF given THEN <<Config(sA, v, <<>>)>> ELSE <<>>, count |-> 1]
    /\ \E f \in [1..MaxVersion -> 0..MaxTime], others \in OtherRcs,
          listErr \in {"", "other"} :
         kubeClient = [QuietKube EXCEPT !.rcs = RcsOfA(f) \cup others,
                                        !.rcListErr = listErr,
                                        !.pods = <<"Running", "Pending">>]

SpecHistory == InitHistory /\ [][Describe]_vars

\* every combination of collaborator failures, for both describers
InitFailures ==
    /\ InitCommon
    /\ userApi = NoUsers
    /\ \E v \in 0..2, given \in BOOLEAN, count \in {-1, 1, 3}, dcErr \in BOOLEAN,
          message \in {<<>>, sBoom} :
         /\ osClient = [dcs |-> {Config(sA, v, message)}, err |-> dcErr]
         /\ d = [config |-> IF given THEN <<Config(sA, v, message)>> ELSE <<>>,
                 count |-> count]
    /\ \E rcs \in {{}, {Deployment(sA, 1, 1), Deployment(sA, 2, 2), PlainRc(sDb, 1)}},
          rcGetErr \in BOOLEAN, rcListErr \in {"", "notfound", "other"},
          podsErr \in BOOLEAN, hpaErr \in BOOLEAN,
          events \in {[err |-> TRUE, list |-> <<>>], [err |-> FALSE, list |-> <<>>],
                      [err |-> FALSE, list |-> <<EventList(2)>>]} :
         kubeClient = [rcs |-> rcs, rcGetErr |-> rcGetErr, rcListErr |-> rcListErr,
                       pods |-> <<"Running", "Failed", "Unknown">>, podsErr |-> podsErr,
                       hpas |-> <<Hpa(1, sA, "DeploymentConfig", <<1, 3, <<>>>>)>>,
                       hpaErr |-> hpaErr, events |-> events]


\* the event section
InitEvents ==
    /\ InitCommon
    /\ userApi = NoUsers
    /\ \E v \in 0..1, given \in BOOLEAN :
         /\ osClient = [dcs |-> {Config(sA, v, <<>>)}, err |-> FALSE]
         /\ d = [config |-> IF given THEN <<Config(sA, v, <<>>)>> ELSE <<>>, count |-> 1]
    /\ \E events \in {[err |-> TRUE, list |-> <<>>], [err |-> FALSE, list |-> <<>>]}
                      \cup {[err |-> FALSE, list |-> <<EventList(n)>>] : n \in 0..MaxEvents},
          rcs \in {{}, {Deployment(sA, 1, 1)}} :
         kubeClient = [QuietKube EXCEPT !.events = events, !.rcs = rcs]

SpecEvents == InitEvents /\ [][Describe]_vars

\* the autoscaling line
InitHpa ==
    /\ InitCommon
    /\ userApi = NoUsers
    /\ osClient = [dcs |-> {Config(sA, 1, <<>>)}, err |-> FALSE]
    /\ d = [config |-> <<>>, count |-> 1]
    /\ \E hpas \in HpaLists, hpaErr \in BOOLEAN :
         kubeClient = [QuietKube EXCEPT !.hpas = hpas, !.hpaErr = hpaErr]

SpecHpa == InitHpa /\ [][Describe]_vars

\* the user registry
InitUser ==
    /\ InitCommon
    /\ osClient = [dcs |-> {}, err |-> FALSE]
    /\ d = [config |-> <<>>, count |-> 1]
    /\ kubeClient = QuietKube
    /\ \E ctx \in {<<>>} \cup {<<[name |-> n, groups |-> g]>> :
                       n \in {<<>>, sAl, sBo, sSysAdmin, sTilde},
                       g \in SUBSET {"system:unauthenticated", "system:authenticated", "dev"}},
          names \in SUBSET {sAl, sBo}, err \in BOOLEAN :
         userApi = [ctx |-> ctx,
                    users |-> {[name |-> n, groups |-> {"stored"}, uid |-> "u1"] : n \in names},
                    err |-> err]

\* the three handlers, under failing collaborators and under the user registry
Init == InitFailures \/ InitUser

Next == Describe \/ Latest \/ UserGet

Spec == Init /\ [][Next]_vars

---------------------------------------------------------------------------
(* Reading a finished request *)

Described == pc = "done" /\ req.op = "Describe" /\ res.err = ""

\* the config the finished Describe rendered
TheConfig ==
    IF d.config # <<>> THEN d.config[1]
    ELSE CHOOSE c \in osClient.dcs : c.name = req.name

Lines(label) == SelectSeq(res.out, LAMBDA l : l.label = label)

EndsWith(s, suffix) ==
    /\ Len(s) >= Len(suffix)
    /\ SubSeq(s, Len(s) - Len(suffix) + 1, Len(s)) = suffix

StartsWith(s, prefix) ==
    /\ Len(s) >= Len(prefix)
    /\ SubSeq(s, 1, Len(prefix)) = prefix

\* the 'Deployment #V (latest)' blocks and the prior 'Deployment #V' blocks
ActiveBlocks == SelectSeq(Lines("Deployment"), LAMBDA l : EndsWith(l.text, sLatestSuffix))
PriorBlocks == SelectSeq(Lines("Deployment"), LAMBDA l : ~EndsWith(l.text, sLatestSuffix))

\* the version a block's header shows
HeaderVersion(l) ==
    LET body == SubSeq(l.text, Len(sDeploymentHash) + 1, Len(l.text))
    IN  IF EndsWith(body, sLatestSuffix)
        THEN ParseDigits(SubSeq(body, 1, Len(body) - Len(sLatestSuffix)), 0)
        ELSE ParseDigits(body, 0)

Min(a, b) == IF a < b THEN a ELSE b

\* the history is shown: no config was provided and the list succeeded
HistoryShown == Described /\ d.config = <<>> /\ kubeClient.rcListErr = ""

\* the instances the config owns other than the one retrieved as latest
OwnedPrior ==
    {rc \in kubeClient.rcs :
        /\ rc.annConfig = TheConfig.name
        /\ rc.name # LatestDeploymentNameForConfig(TheConfig)}

---------------------------------------------------------------------------
(* Claims *)

C2_VersionDescending ==
    Described =>
        \A i \in 1..(Len(PriorBlocks) - 1) :
            LET a == PriorBlocks[i].of[1]
                b == PriorBlocks[i + 1].of[1]
                va == DeploymentVersionFor(a)
                vb == DeploymentVersionFor(b)
            IN  \/ va > vb
                \/ va = vb /\ a.ts > b.ts
                \/ va = vb /\ a.ts = b.ts /\ StrLess(b.name, a.name)

\* C2 amended: the prior blocks appear in strictly descending order of
\* (creation timestamp, name); the version plays no part in the order.
C2_TimestampDescending ==
    Described =>
        \A i \in 1..(Len(PriorBlocks) - 1) :
            LET a == PriorBlocks[i].of[1]
                b == PriorBlocks[i + 1].of[1]
            IN  \/ a.ts > b.ts
                \/ a.ts = b.ts /\ StrLess(b.name, a.name)

C2_Witness ==
    /\ Described
    /\ Len(PriorBlocks) = 2
    /\ PriorBlocks[1].of[1].ts > PriorBlocks[2].of[1].ts
    /\ DeploymentVersionFor(PriorBlocks[1].of[1]) < DeploymentVersionFor(PriorBlocks[2].of[1])

\* C3 as claimed: with the history shown, a config owning k instances other
\* than the active one renders exactly min(k, 3) prior blocks.
C3_PriorCountMin3 ==
    HistoryShown => Len(PriorBlocks) = Min(Cardinality(OwnedPrior), 3)

\* C3 amended: with the history shown, exactly min(k, 2) prior blocks are
\* rendered, each one an owned instance other than the latest by name.
C3_PriorCountMin2 ==
    HistoryShown =>
        /\ Len(PriorBlocks) = Min(Cardinality(OwnedPrior), 2)
        /\ \A i \in 1..Len(PriorBlocks) : PriorBlocks[i].of[1] \in OwnedPrior

C3_Witness ==
    /\ HistoryShown
    /\ Cardinality(OwnedPrior) = 3
    /\ Len(PriorBlocks) = 2
    /\ Len(ActiveBlocks) = 1

\* the outcome of fetching the root config and of the instance reads
ConfigFetchFails == osClient.err \/ ~\E c \in osClient.dcs : c.name = req.name

LatestGetOutcome ==
    IF kubeClient.rcGetErr THEN "other"
    ELSE IF \E rc \in kubeClient.rcs : rc.name = LatestDeploymentNameForConfig(TheConfig)
         THEN "" ELSE "notfound"

InstanceReadFails ==
    IF d.count = -1 \/ d.count > 1
    THEN kubeClient.rcListErr = "other"
    ELSE kubeClient.rcGetErr

\* C4 as claimed: for both describers an error is returned only when
\* fetching the root config fails.
C4_OnlyConfigFetchFails ==
    (pc = "done" /\ req.op \in {"Describe", "Latest"} /\ res.err # "")
        => ConfigFetchFails

\* C4 amended: DeploymentConfigDescriber.Describe returns an error exactly
\* when it has to fetch the root config and the fetch fails;
\* LatestDeploymentsDescriber.Describe returns an error exactly when the
\* config fetch fails or its instance read (the list for count -1 or > 1,
\* else the get of the latest) fails with an error other than not-found.
C4_ErrorsReturned ==
    /\ (pc = "done" /\ req.op = "Describe")
          => (res.err # "" <=> (d.config = <<>> /\ ConfigFetchFails))
    /\ (pc = "done" /\ req.op = "Latest")
          => (res.err # "" <=> (ConfigFetchFails \/ InstanceReadFails))

C4_Witness ==
    /\ pc = "done" /\ req.op = "Describe" /\ res.err = ""
    /\ d.config = <<>>
    /\ kubeClient.rcGetErr /\ kubeClient.rcListErr = "other" /\ kubeClient.podsErr
    /\ kubeClient.hpaErr /\ kubeClient.events.err /\ req.ShowEvents
    /\ Len(res.out) > 0

\* C5: a failure to retrieve the active instance does not abort the
\* render: not-found shows 'Latest Deployment: <none>', another error shows
\* 'Latest Deployment: error: <cause>', the prior instances and the events
\* are still processed, and a failed event search leaves no event section
\* and no error marker.
C5_LatestDegrades ==
    Described =>
        /\ LatestGetOutcome = "notfound" =>
              /\ Len(Lines("Latest Deployment")) = 1
              /\ Lines("Latest Deployment")[1].text = sNone
              /\ Len(ActiveBlocks) = 0
        /\ LatestGetOutcome = "other" =>
              /\ Len(Lines("Latest Deployment")) = 1
              /\ Lines("Latest Deployment")[1].text = sErrorPrefix \o sBoom
              /\ Len(ActiveBlocks) = 0
        /\ LatestGetOutcome = "" =>
              /\ Len(Lines("Latest Deployment")) = 0
              /\ Len(ActiveBlocks) = 1
        /\ d.config = <<>> =>
              /\ \E i \in 1..Len(res.calls) : res.calls[i] = "RCList"
              /\ kubeClient.rcListErr = "" =>
                    Len(PriorBlocks) = Min(Cardinality(OwnedPrior), 2)
        /\ req.ShowEvents =>
              /\ res.calls[Len(res.calls)] = "EventsSearch"
              /\ Len(Lines("Events")) =
                    (IF ~kubeClient.events.err /\ kubeClient.events.list # <<>>
                     THEN 1 ELSE 0)
        /\ \A i \in 1..Len(res.out) :
              StartsWith(res.out[i].text, sErrorPrefix)
                  => res.out[i].label = "Latest Deployment"

C5_Witness ==
    /\ Described
    /\ LatestGetOutcome = "other"
    /\ d.config = <<>>
    /\ Len(PriorBlocks) = 1
    /\ req.ShowEvents /\ kubeClient.events.err

\* C7: for a config with Status.LatestVersion = 0 the 'Latest Version'
\* line is 'Not deployed', whatever the instances and the collaborators
\* return; otherwise the line is the version in decimal.
C7_NotDeployed ==
    Described =>
        /\ Len(Lines("Latest Version")) = 1
        /\ LET t == Lines("Latest Version")[1].text
           IN  IF TheConfig.latestVersion = 0
               THEN t = sNotDeployed
               ELSE ParseDigits(t, 0) = TheConfig.latestVersion

C7_Witness ==
    /\ Described
    /\ TheConfig.latestVersion = 0
    /\ kubeClient.rcs # {}
    /\ kubeClient.rcGetErr
    /\ Lines("Latest Version")[1].text = sNotDeployed

\* positions of a call in the request's call sequence
Calls(c) == {i \in 1..Len(res.calls) : res.calls[i] = c}

\* C9 as claimed: the instance list has been retrieved before any
\* pod-phase query is issued.
C9_ListBeforePods ==
    (pc = "done" /\ req.op = "Describe") =>
        \A i \in Calls("PodsList") : \E j \in Calls("RCList") : j < i

\* C9 amended: Describe issues at most one pod-phase query, only for the
\* active instance, right after retrieving it by name, and none for prior
\* instances; that query comes before the instance list is retrieved.
C9_PodsOnlyForActive ==
    (pc = "done" /\ req.op = "Describe") =>
        /\ Cardinality(Calls("PodsList")) <= 1
        /\ \A i \in Calls("PodsList") :
              /\ i > 1 /\ res.calls[i - 1] = "RCGet"
              /\ Len(ActiveBlocks) = 1
              /\ \A j \in Calls("RCList") : i < j

C9_Witness ==
    /\ Described
    /\ Cardinality(Calls("PodsList")) = 1
    /\ Cardinality(Calls("RCList")) = 1
    /\ Len(PriorBlocks) = 1

\* C10: Get "~" answers for the caller and never with not-found:
\* Forbidden without a store read when the context has no user or an empty
\* name; the virtual user without a store read when the caller's name is
\* no valid user name; else the stored user, the virtual user on not-found,
\* or the store's other error.  Another name that is invalid gives an
\* Invalid error without a store read.
C10_GetSelf ==
    (pc = "done" /\ req.op = "UserGet") =>
        IF req.name = sTilde
        THEN /\ res.err # "notfound"
             /\ IF userApi.ctx = <<>> \/ userApi.ctx[1].name = <<>>
                THEN res.err = "forbidden" /\ res.calls = <<>> /\ res.obj = <<>>
                ELSE LET u == userApi.ctx[1]
                         virtual == [name |-> u.name, uid |-> "",
                                     groups |-> u.groups \ {"system:unauthenticated",
                                                            "system:authenticated"}]
                         stored == {s \in userApi.users : s.name = u.name}
                     IN  IF ~ValidateUserName(u.name)
                         THEN res.err = "" /\ res.obj = <<virtual>> /\ res.calls = <<>>
                         ELSE /\ res.calls = <<"StoreGet">>
                              /\ IF userApi.err THEN res.err = "other" /\ res.obj = <<>>
                                 ELSE IF stored # {}
                                 THEN res.err = "" /\ res.obj[1] \in stored
                                 ELSE res.err = "" /\ res.obj = <<virtual>>
        ELSE ~ValidateUserName(req.name) => (res.err = "invalid" /\ res.calls = <<>>)

C10_Witness ==
    /\ pc = "done" /\ req.op = "UserGet" /\ req.name = sTilde
    /\ userApi.ctx # <<>>
    /\ userApi.ctx[1].name = sAl
    /\ "system:authenticated" \in userApi.ctx[1].groups
    /\ "dev" \in userApi.ctx[1].groups
    /\ ~userApi.err
    /\ userApi.users = {}
    /\ res.err = ""
    /\ res.obj[1].groups = {"dev"}

C8_FirstAutoscalerOnly ==
    (pc = "done" /\ req.op = "Describe" /\ ~ConfigFetchFails) =>
        LET hpas == kubeClient.hpas
            M == {i \in 1..Len(hpas) :
                    hpas[i].refName = req.name /\ hpas[i].refKind = "DeploymentConfig"}
            auto == Lines("Autoscaling")
        IN  /\ res.err = ""
            /\ IF kubeClient.hpaErr \/ M = {}
               THEN auto = <<>>
               ELSE LET first == hpas[CHOOSE i \in M : \A k \in M : i <= k]
                    IN  /\ Len(auto) = 1
                        /\ auto[1].of = <<first>>
                        /\ auto[1].items = <<first.min, first.max>> \o first.cpu

C8_Witness ==
    /\ Described
    /\ ~kubeClient.hpaErr
    /\ Len(kubeClient.hpas) = 2
    /\ \A i \in 1..2 : /\ kubeClient.hpas[i].refName = req.name
                       /\ kubeClient.hpas[i].refKind = "DeploymentConfig"
    /\ kubeClient.hpas[1].cpu = <<80>> /\ kubeClient.hpas[2].cpu = <<>>
    /\ Len(Lines("Autoscaling")) = 1
    /\ Lines("Autoscaling")[1].items = <<2, 5, 80>>

============================================================================
